---------------------------- MODULE Spec2Model ----------------------------
(***************************************************************************)
(* Two-component (Gray-Scott) reaction-diffusion integrator of             *)
(* tf_reaction_diffusion_2c.ipynb: the initial conditions, wrap_pad, the   *)
(* TensorFlow calculation nodes and the time-step loop with its sampling   *)
(* into `evolution`.                                                       *)
(*                                                                         *)
(* Arithmetic.  The notebook computes in float32.  Here every quantity is  *)
(* an integer numerator over a fixed denominator: field values over        *)
(* ValScale, DA/DB/TIME_STEP over HalfScale, f/k over RateScale and the    *)
(* kernel weights over KernelScale.  The expression of one cell of         *)
(* next_a / next_b is evaluated exactly and rounded once, to the nearest   *)
(* multiple of 1/ValScale, when sess.run hands the array back (Quantize).  *)
(* The rounding of single float32 operations is not modelled.              *)
(*                                                                         *)
(* Arrays are sequences of rows (1-based); the Python index x is the       *)
(* TLA+ index x+1.  The reshapes to [1,N,N,1] and back only add and drop   *)
(* dimensions of size one and are the identity on this representation.     *)
(***************************************************************************)
EXTENDS Integers, Sequences, FiniteSets

VARIABLES
    N_POINTS, SEED_START, SEED_SIZE, N_TIMES, N_STEPS,  \* global parameters
    TIME_STEP, DA, DB, f, k,                            \* global parameters
    a, b,            \* current fields (<<>> while not yet assigned)
    evolution,       \* list of retained [a, b] pairs (<<>> while unassigned)
    new_a, new_b,    \* result of the last sess.run (<<>> while unassigned)
    i,               \* number of loop iterations completed: the next value
                     \* that range(N_TIMES) yields
    pc,              \* "cell5", "cell7", "done", "error", "pure"
    err,             \* the exception that ended the run, or "none"
    out              \* SpecPure only: the last pure function applied

vars == <<N_POINTS, SEED_START, SEED_SIZE, N_TIMES, N_STEPS, TIME_STEP, DA,
          DB, f, k, a, b, evolution, new_a, new_b, i, pc, err, out>>

params == <<N_POINTS, SEED_START, SEED_SIZE, N_TIMES, N_STEPS, TIME_STEP,
            DA, DB, f, k>>

-----------------------------------------------------------------------------
(* Bounds of the model *)
MaxN == 4
MaxSeedStart == 3
MaxSeedSize == 2
MaxTimes == 4
MaxSteps == 2
MaxOff == 2
MaxCoef == 1
MaxD == 2
MaxDt == 2
FieldMod == 17

(* Denominators of the fixed-point representation *)
ValScale == 10
HalfScale == 2
RateScale == 1000
KernelScale == 20

-----------------------------------------------------------------------------
(* Python and numpy primitives *)

Min(x, y) == IF x < y THEN x ELSE y
Max(x, y) == IF x > y THEN x ELSE y

\* a sequence given as a function on 1..n, held as an explicit tuple
Tup(sq) == sq \o <<>>

\* faulty variant: a bound past the end wraps around instead of being clipped
SliceBound_wrapping(x, n) == IF x < 0 THEN Max(x + n, 0) ELSE IF x > n THEN x - n ELSE x

\* Python's normalisation of one slice bound against a length n
SliceBound(x, n) == IF x < 0 THEN Max(x + n, 0) ELSE Min(x, n)

\* s[lo:hi] of a Python sequence
PySlice(s, lo, hi) ==
    SubSeq(s, SliceBound(lo, Len(s)) + 1, SliceBound(hi, Len(s)))

\* Python's x % m for m # 0: the result takes the sign of m
PyMod(x, m) == IF m > 0 THEN x % m ELSE -((-x) % (-m))

\* np.ones((n, n)), np.zeros((n, n)), in units of 1/ValScale
np_ones(n) == Tup([r \in 1..n |-> Tup([c \in 1..n |-> ValScale])])
np_zeros(n) == Tup([r \in 1..n |-> Tup([c \in 1..n |-> 0])])

\* the 0-based positions selected by the slice lo:hi of an axis of length n
SliceRange(lo, hi, n) == {x \in 0..(n - 1) : SliceBound(lo, n) <= x /\ x < SliceBound(hi, n)}

\* arr[lo:hi, lo:hi] = v
SliceAssign(arr, lo, hi, v) ==
    Tup([r \in 1..Len(arr) |->
        Tup([c \in 1..Len(arr[r]) |->
            IF (r - 1) \in SliceRange(lo, hi, Len(arr)) /\
               (c - 1) \in SliceRange(lo, hi, Len(arr[r]))
            THEN v ELSE arr[r][c]])])

-----------------------------------------------------------------------------
(* wrap_pad and the calculation nodes *)

\* tf.concat along axis 2 (columns) and axis 1 (rows)
ConcatCols(x, y, z) == Tup([r \in 1..Len(y) |-> x[r] \o y[r] \o z[r]])
ConcatRows(x, y, z) == x \o y \o z

\* t[:, :, lo:hi, :] and t[:, lo:hi, :, :]
ColSlice(t, lo, hi) == Tup([r \in 1..Len(t) |-> PySlice(t[r], lo, hi)])
RowSlice(t, lo, hi) == PySlice(t, lo, hi)

Width(t) == IF Len(t) = 0 THEN 0 ELSE Len(t[1])

\* faulty variant: the two column borders taken from the near edge instead of the far one
wrap_pad_near_edge(tensor, size) ==
    LET M1 == ConcatCols(ColSlice(tensor, 0, size), tensor,
                         ColSlice(tensor, -size, Width(tensor)))
    IN  ConcatRows(RowSlice(M1, -size, Len(M1)), M1, RowSlice(M1, 0, size))

wrap_pad(tensor, size) ==
    LET M1 == ConcatCols(ColSlice(tensor, -size, Width(tensor)), tensor,
                         ColSlice(tensor, 0, size))
    IN  ConcatRows(RowSlice(M1, -size, Len(M1)), M1, RowSlice(M1, 0, size))

\* faulty variant: the diagonal weights written as 0.1 instead of 0.05
kernel_heavy_diagonal == << <<2, 4, 2>>, <<4, -KernelScale, 4>>, <<2, 4, 2>> >>

\* the 3x3 kernel in units of 1/KernelScale
kernel == << <<1, 4, 1>>, <<4, -KernelScale, 4>>, <<1, 4, 1>> >>

\* D * TIME_STEP * kernel, in units of 1/(HalfScale^2 * KernelScale)
ScaledKernel(D, dt) ==
    Tup([u \in 1..3 |-> Tup([v \in 1..3 |-> D * dt * kernel[u][v]])])

\* tf.nn.conv2d(x, kern, strides=[1,1,1,1], padding='VALID') for a 3x3 kern
conv2d(x, kern) ==
    Tup([r \in 1..(Len(x) - 2) |->
        Tup([c \in 1..(Width(x) - 2) |->
              x[r][c] * kern[1][1]     + x[r][c+1] * kern[1][2]
            + x[r][c+2] * kern[1][3]   + x[r+1][c] * kern[2][1]
            + x[r+1][c+1] * kern[2][2] + x[r+1][c+2] * kern[2][3]
            + x[r+2][c] * kern[3][1]   + x[r+2][c+1] * kern[3][2]
            + x[r+2][c+2] * kern[3][3]])])

\* diff_a / diff_b, in units of 1/(HalfScale^2 * KernelScale * ValScale)
diffuse(field, D, dt) == conv2d(wrap_pad(field, 1), ScaledKernel(D, dt))

\* react_a and react_b of one cell, in units of
\* 1/(HalfScale * RateScale * ValScale^3)
\* faulty variant: the feed term written f*(1.0 + a)
react_a_feed_sign(dt, fv, va, vb) ==
    dt * (-(va * vb * vb) * RateScale + fv * (ValScale + va) * ValScale * ValScale)

react_a(dt, fv, va, vb) ==
    dt * (-(va * vb * vb) * RateScale + fv * (ValScale - va) * ValScale * ValScale)
react_b(dt, fv, kv, va, vb) ==
    dt * (va * vb * vb * RateScale - (kv + fv) * vb * ValScale * ValScale)

\* common denominator of one cell of next_a / next_b, per unit of 1/ValScale
CellDen == HalfScale * RateScale * ValScale * ValScale
\* factor that brings a diff_a numerator to the common denominator
DiffMul == (RateScale * ValScale * ValScale) \div (HalfScale * KernelScale)

\* the float32 array handed back by sess.run: nearest multiple of 1/ValScale
Quantize(num) == (num + (CellDen \div 2)) \div CellDen

\* input + diff + react of one cell, over the common denominator
next_cell(v, d, re) == Quantize(v * CellDen + d * DiffMul + re)

next_a(fa, fb, D, dt, fv) ==
    LET diff_a == diffuse(fa, D, dt)
    IN  Tup([r \in 1..Len(fa) |-> Tup([c \in 1..Len(fa[r]) |->
            next_cell(fa[r][c], diff_a[r][c], react_a(dt, fv, fa[r][c], fb[r][c]))])])

next_b(fa, fb, D, dt, fv, kv) ==
    LET diff_b == diffuse(fb, D, dt)
    IN  Tup([r \in 1..Len(fb) |-> Tup([c \in 1..Len(fb[r]) |->
            next_cell(fb[r][c], diff_b[r][c], react_b(dt, fv, kv, fa[r][c], fb[r][c]))])])

\* faulty variant: next_b reads the already advanced a
sess_run_staggered(fa, fb) ==
    << next_a(fa, fb, DA, TIME_STEP, f),
       next_b(next_a(fa, fb, DA, TIME_STEP, f), fb, DB, TIME_STEP, f, k) >>

\* sess.run([next_a, next_b], feed_dict={current_a: fa, current_b: fb})
sess_run(fa, fb) ==
    << next_a(fa, fb, DA, TIME_STEP, f), next_b(fa, fb, DB, TIME_STEP, f, k) >>

-----------------------------------------------------------------------------
(* The notebook run: cell 5, then the loop of cell 7 *)

\* the physical parameters of the notebook and one variation of them
PhysParams ==
    { [dt |-> HalfScale, da |-> HalfScale, db |-> 1, f |-> 55, k |-> 62],
      [dt |-> 1, da |-> 1, db |-> HalfScale, f |-> 30, k |-> 57] }

Init ==
    /\ N_POINTS \in 1..MaxN
    /\ SEED_START \in 0..MaxSeedStart
    /\ SEED_SIZE \in 0..MaxSeedSize
    /\ N_TIMES \in 0..MaxTimes
    /\ N_STEPS \in (-MaxSteps)..MaxSteps
    /\ \E p \in PhysParams :
          /\ TIME_STEP = p.dt /\ DA = p.da /\ DB = p.db /\ f = p.f /\ k = p.k
    /\ a = <<>> /\ b = <<>> /\ evolution = <<>>
    /\ new_a = <<>> /\ new_b = <<>>
    /\ i = 0
    /\ pc = "cell5"
    /\ err = "none"
    /\ out = [op |-> "none", val |-> <<>>]

\* faulty variant: the slice stops one row and column late
initial_b_late_stop ==
    SliceAssign(np_zeros(N_POINTS), SEED_START, SEED_START + SEED_SIZE + 1, ValScale)

\* a, b of cell 5
initial_a == np_ones(N_POINTS)
initial_b == SliceAssign(np_zeros(N_POINTS), SEED_START, SEED_START + SEED_SIZE, ValScale)

InitializeStartingConditions ==
    /\ pc = "cell5"
    /\ a' = initial_a
    /\ b' = initial_b
    /\ evolution' = << <<a', b'>> >>
    /\ pc' = "cell7"
    /\ UNCHANGED <<params, new_a, new_b, i, err, out>>

\* faulty variant: the sampling test written on i instead of i+1
Sampled_off_by_one(idx) == PyMod(idx, N_STEPS) = 0

\* whether iteration index idx (0-based) is retained
Sampled(idx) == PyMod(idx + 1, N_STEPS) = 0

\* faulty variant: the loop stops one iteration early
range_exhausted_early(idx) == idx >= N_TIMES - 1

\* range(N_TIMES) yields nothing more once idx values were drawn
range_exhausted(idx) == idx >= N_TIMES

\* faulty variant: the pre-step arrays are appended
record_entry_stale(old_a, old_b, na, nb) == <<old_a, old_b>>

\* the element appended to evolution: [new_a, new_b]
record_entry(old_a, old_b, na, nb) == <<na, nb>>

\* faulty variant: the sampling test is evaluated before sess.run
TimeStep_test_first ==
    /\ pc = "cell7"
    /\ i < N_TIMES
    /\ IF N_STEPS = 0
       THEN /\ err' = "ZeroDivisionError"
            /\ pc' = "error"
            /\ UNCHANGED <<a, b, evolution, i, new_a, new_b>>
       ELSE LET res == sess_run(a, b)
            IN  /\ new_a' = res[1]
                /\ new_b' = res[2]
                /\ evolution' = IF Sampled(i)
                                THEN Append(evolution, record_entry(a, b, res[1], res[2]))
                                ELSE evolution
                /\ a' = res[1]
                /\ b' = res[2]
                /\ i' = i + 1
                /\ UNCHANGED <<pc, err>>
    /\ UNCHANGED <<params, out>>

\* the loop has another iteration to run
LoopContinues == pc = "cell7" /\ ~range_exhausted(i)

\* one iteration of `for i in tqdm(range(N_TIMES))`
TimeStep ==
    /\ LoopContinues
    /\ LET res == sess_run(a, b)
       IN  /\ new_a' = res[1]
           /\ new_b' = res[2]
           /\ IF N_STEPS = 0
              THEN \* (i+1) % N_STEPS raises before anything else is assigned
                   /\ err' = "ZeroDivisionError"
                   /\ pc' = "error"
                   /\ UNCHANGED <<a, b, evolution, i>>
              ELSE /\ evolution' = IF Sampled(i)
                                   THEN Append(evolution, record_entry(a, b, res[1], res[2]))
                                   ELSE evolution
                   /\ a' = res[1]
                   /\ b' = res[2]
                   /\ i' = i + 1
                   /\ UNCHANGED <<pc, err>>
    /\ UNCHANGED <<params, out>>

LoopExit ==
    /\ pc = "cell7"
    /\ range_exhausted(i)
    /\ pc' = "done"
    /\ UNCHANGED <<params, a, b, evolution, new_a, new_b, i, err, out>>

Next == InitializeStartingConditions \/ TimeStep \/ LoopExit

Spec == Init /\ [][Next]_vars

-----------------------------------------------------------------------------
(* wrap_pad, diffuse and one sess.run applied to fields drawn from a family *)

\* the field whose cell (r, c) holds (p + q*r + s*c) mod FieldMod
GenField(n, p, q, s) ==
    Tup([r \in 1..n |-> Tup([c \in 1..n |-> (p + q * (r - 1) + s * (c - 1)) % FieldMod])])

PureInit ==
    /\ N_POINTS \in 1..MaxN
    /\ SEED_START = 0 /\ SEED_SIZE = 0 /\ N_TIMES = 0 /\ N_STEPS = 1
    /\ TIME_STEP \in 1..MaxDt
    /\ DA \in 0..MaxD
    /\ DB = (DA + 1) % (MaxD + 1)
    /\ \E fk \in {<<55, 62>>, <<0, 0>>} : f = fk[1] /\ k = fk[2]
    /\ \E p \in (0..MaxOff) \cup {ValScale}, q \in {0, 1, N_POINTS}, s \in 0..MaxCoef :
          a = GenField(N_POINTS, p, q, s)
    /\ \E p \in 0..MaxOff, q \in 0..MaxCoef :
          b = GenField(N_POINTS, p, q, 2 * q)
    /\ evolution = <<>>
    /\ new_a = <<>> /\ new_b = <<>>
    /\ i = 0
    /\ pc = "pure"
    /\ err = "none"
    /\ out = [op |-> "none", val |-> <<>>]

ApplyWrapPad ==
    /\ pc = "pure" /\ out.op = "none"
    /\ out' = [op |-> "wrap_pad", val |-> wrap_pad(a, 1)]
    /\ UNCHANGED <<params, a, b, evolution, new_a, new_b, i, pc, err>>

ApplyDiffuse ==
    /\ pc = "pure" /\ out.op = "none"
    /\ out' = [op |-> "diffuse", val |-> diffuse(a, DA, TIME_STEP)]
    /\ UNCHANGED <<params, a, b, evolution, new_a, new_b, i, pc, err>>

ApplySessRun ==
    /\ pc = "pure" /\ out.op = "none"
    /\ LET res == sess_run(a, b)
       IN  new_a' = res[1] /\ new_b' = res[2]
    /\ out' = [op |-> "sess_run", val |-> <<>>]
    /\ UNCHANGED <<params, a, b, evolution, i, pc, err>>

PureNext == ApplyWrapPad \/ ApplyDiffuse \/ ApplySessRun

SpecPure == PureInit /\ [][PureNext]_vars

-----------------------------------------------------------------------------
(* Reference notions the properties are stated with *)

\* the value of an N x N field at the 0-based torus position (r, c)
Torus(field, r, c) == field[(r % Len(field)) + 1][(c % Len(field)) + 1]

IsSquare(field, n) == Len(field) = n /\ \A r \in 1..n : Len(field[r]) = n

\* the Laplacian weight, in twentieths, of the neighbour at offset (dr, dc)
Weight(dr, dc) ==
    IF dr = 0 /\ dc = 0 THEN -20
    ELSE IF dr = 0 \/ dc = 0 THEN 4 ELSE 1

\* the 3x3 stencil around the 0-based cell (r, c) of the torus
Laplacian(field, r, c) ==
      Weight(-1, -1) * Torus(field, r - 1, c - 1) + Weight(-1, 0) * Torus(field, r - 1, c)
    + Weight(-1, 1) * Torus(field, r - 1, c + 1)  + Weight(0, -1) * Torus(field, r, c - 1)
    + Weight(0, 0) * Torus(field, r, c)           + Weight(0, 1) * Torus(field, r, c + 1)
    + Weight(1, -1) * Torus(field, r + 1, c - 1)  + Weight(1, 0) * Torus(field, r + 1, c)
    + Weight(1, 1) * Torus(field, r + 1, c + 1)

\* X + D*dt*Laplacian(X) + dt*reaction, rounded as the stored array is;
\* 2000000 = 2 * 1000 * 10^3 is the common denominator, 2500 and 200000 bring
\* the diffusion term (over 2*2*20*10) and the value (over 10) to it
EulerA(fa, fb, r, c) ==
    LET va == Torus(fa, r, c)
        vb == Torus(fb, r, c)
        num == 200000 * va + 2500 * DA * TIME_STEP * Laplacian(fa, r, c)
               + TIME_STEP * (-1000 * va * vb * vb + 100 * f * (10 - va))
    IN  (num + 100000) \div 200000

EulerB(fa, fb, r, c) ==
    LET va == Torus(fa, r, c)
        vb == Torus(fb, r, c)
        num == 200000 * vb + 2500 * DB * TIME_STEP * Laplacian(fb, r, c)
               + TIME_STEP * (1000 * va * vb * vb - 100 * (k + f) * vb)
    IN  (num + 100000) \div 200000

\* one step of the whole State
EulerStep(fa, fb) ==
    << Tup([r \in 1..Len(fa) |-> Tup([c \in 1..Len(fa) |-> EulerA(fa, fb, r - 1, c - 1)])]),
       Tup([r \in 1..Len(fb) |-> Tup([c \in 1..Len(fb) |-> EulerB(fa, fb, r - 1, c - 1)])]) >>

-----------------------------------------------------------------------------
(* Properties of wrap_pad, diffuse and one sess.run (SpecPure) *)

\* C5: wrap_pad(field, 1) of an N x N field is the (N+2) x (N+2) toroidal
\* extension: padded[r, c] = field[(r-1) mod N, (c-1) mod N] for r, c in 0..N+1.
C5_WrapPadIsToroidalExtension ==
    out.op = "wrap_pad" =>
        /\ IsSquare(out.val, N_POINTS + 2)
        /\ \A r \in 0..(N_POINTS + 1), c \in 0..(N_POINTS + 1) :
              out.val[r + 1][c + 1] = Torus(a, r - 1, c - 1)

\* wrap_pad was applied to a 3 x 3 field whose nine cells all differ
C5_Witness ==
    /\ out.op = "wrap_pad"
    /\ N_POINTS = 3
    /\ Cardinality({a[r][c] : r \in 1..3, c \in 1..3}) = 9
    /\ out.val[1][1] = a[3][3]

\* C6: one sess.run yields, in every cell, X + diffX + reactX with the 3x3
\* kernel (orthogonal 0.2, diagonal 0.05, centre -1) scaled by D_X*dt on the
\* toroidal neighbourhood of the pre-step field and the reaction terms of the
\* pre-step values of both fields.
C6_StepIsEulerOfPreStepState ==
    out.op = "sess_run" =>
        /\ IsSquare(new_a, N_POINTS) /\ IsSquare(new_b, N_POINTS)
        /\ \A r \in 0..(N_POINTS - 1), c \in 0..(N_POINTS - 1) :
              /\ new_a[r + 1][c + 1] = EulerA(a, b, r, c)
              /\ new_b[r + 1][c + 1] = EulerB(a, b, r, c)

\* sess.run was applied to non-constant fields with diffusion and reaction
\* both active, and changed both fields
C6_Witness ==
    /\ out.op = "sess_run"
    /\ N_POINTS >= 3 /\ DA > 0 /\ f > 0
    /\ a[1][1] # a[1][2] /\ a[1][1] # a[2][1] /\ b[1][1] # b[1][2]
    /\ new_a # a /\ new_b # b

-----------------------------------------------------------------------------
(* Properties of the run (Spec) *)

\* the State after n applications of the step to the State <<fa, fb>>
RECURSIVE StepN(_, _, _)
StepN(fa, fb, n) ==
    IF n = 0 THEN <<fa, fb>>
    ELSE LET s == EulerStep(fa, fb) IN StepN(s[1], s[2], n - 1)

\* the seed patch as the parameters name it, 0-based
InPatch(r, c) ==
    /\ SEED_START <= r /\ r < SEED_START + SEED_SIZE
    /\ SEED_START <= c /\ c < SEED_START + SEED_SIZE

SeedFits == SEED_START + SEED_SIZE <= N_POINTS

\* all ones, and zeros with ones exactly on the part of the patch inside the grid
SeededA == [r \in 1..N_POINTS |-> [c \in 1..N_POINTS |-> 10]]
SeededB == [r \in 1..N_POINTS |-> [c \in 1..N_POINTS |->
               IF InPatch(r - 1, c - 1) THEN 10 ELSE 0]]

Started == pc # "cell5"

\* C1: with N_STEPS positive, after i completed iterations the record holds
\* exactly 1 + floor(i / N_STEPS) entries, hence 1 + floor(N_TIMES / N_STEPS)
\* when the loop has finished.
C1_RecordLength ==
    (Started /\ N_STEPS > 0) =>
        /\ Len(evolution) = 1 + (i \div N_STEPS)
        /\ pc = "done" => Len(evolution) = 1 + (N_TIMES \div N_STEPS)

\* the loop has finished with several samples taken and iterations left over
C1_Witness ==
    /\ pc = "done" /\ N_STEPS = 2 /\ N_TIMES = 3
    /\ Len(evolution) = 2

\* C2: entry 0 is the initial State whatever N_STEPS is, and entry j >= 1 is
\* the State after exactly N_STEPS*j steps; iteration n is retained iff
\* n mod N_STEPS = 0, each once.
C2_RecordContents ==
    Started =>
        /\ Len(evolution) >= 1
        /\ evolution[1] = <<SeededA, SeededB>>
        /\ N_STEPS > 0 =>
              /\ \A j \in 1..(Len(evolution) - 1) :
                    /\ N_STEPS * j <= i
                    /\ evolution[j + 1] = StepN(SeededA, SeededB, N_STEPS * j)
              /\ \A n \in 1..i :
                    (n % N_STEPS = 0) <=>
                        (\E j \in 1..(Len(evolution) - 1) : n = N_STEPS * j)

\* two samples were taken after the initial one, the three entries all differ
C2_Witness ==
    /\ N_STEPS = 2 /\ i = 4
    /\ Len(evolution) = 3
    /\ evolution[1] # evolution[2] /\ evolution[2] # evolution[3]
    /\ evolution[1] # evolution[3]
    /\ evolution[2] # StepN(SeededA, SeededB, 1)

\* C10: for parameters whose seed patch fits, before any step A is 1.0 in
\* every cell and B is 1.0 exactly on the SEED_SIZE x SEED_SIZE patch anchored
\* at (SEED_START, SEED_START) and 0.0 elsewhere.
C10_InitialState ==
    (Started /\ i = 0 /\ SeedFits) =>
        /\ IsSquare(a, N_POINTS) /\ IsSquare(b, N_POINTS)
        /\ \A r \in 0..(N_POINTS - 1), c \in 0..(N_POINTS - 1) :
              /\ a[r + 1][c + 1] = 10
              /\ b[r + 1][c + 1] = IF InPatch(r, c) THEN 10 ELSE 0
        /\ Cardinality({rc \in (1..N_POINTS) \X (1..N_POINTS) : b[rc[1]][rc[2]] = 10})
              = SEED_SIZE * SEED_SIZE

\* cell 5 has run with a 2 x 2 patch strictly inside a 4 x 4 grid
C10_Witness ==
    /\ pc = "cell7" /\ i = 0
    /\ N_POINTS = 4 /\ SEED_START = 1 /\ SEED_SIZE = 2
    /\ b[2][2] = 10 /\ b[3][3] = 10 /\ b[1][1] = 0 /\ b[4][4] = 0

\* no cell of the 3x3 toroidal neighbourhood of (r, c) lies in the seed patch
FarFromPatch(r, c) ==
    \A dr \in -1..1, dc \in -1..1 :
        ~InPatch((r + dr) % N_POINTS, (c + dc) % N_POINTS)

\* C9: after one step from the seeded initial State, every cell whose 3x3
\* toroidal neighbourhood does not meet the seed patch has newA = 1.0 and
\* newB = 0.0.
C9_FarCellsUnchangedAfterOneStep ==
    (Started /\ SeedFits /\ new_a # <<>> /\ i <= 1) =>
        \A r \in 0..(N_POINTS - 1), c \in 0..(N_POINTS - 1) :
            FarFromPatch(r, c) => new_a[r + 1][c + 1] = 10 /\ new_b[r + 1][c + 1] = 0

\* one step was taken on a grid that has cells far from a non-empty patch,
\* and the step changed the cells at and next to the patch
C9_Witness ==
    /\ i = 1 /\ SeedFits /\ SEED_SIZE = 1 /\ SEED_START = 1 /\ N_POINTS = 4
    /\ FarFromPatch(3, 3) /\ ~FarFromPatch(2, 2)
    /\ new_a[2][2] # 10 /\ new_b[2][3] # 0
    /\ new_a[4][4] = 10 /\ new_b[4][4] = 0

C4_NonPositiveIntervalRejected ==
    N_STEPS <= 0 => new_a = <<>> /\ pc # "done"

\* C4 amended: a non-positive N_STEPS is not detected at initialization.
\* With N_STEPS = 0 cell 5 succeeds and, if N_TIMES >= 1, the first iteration
\* computes the first step and then raises ZeroDivisionError at the sampling
\* test, leaving a, b and the record as initialized; with N_TIMES = 0 the run
\* completes without error.  With N_STEPS < 0 no error is raised: all N_TIMES
\* steps run and every |N_STEPS|-th iteration is sampled.
C4_NonPositiveIntervalBehaviour ==
    /\ (N_STEPS = 0 /\ Started) =>
          /\ pc = "error" <=> err = "ZeroDivisionError"
          /\ <<a, b>> = <<SeededA, SeededB>> /\ evolution = << <<a, b>> >>
          /\ i = 0
          /\ pc = "error" =>
                N_TIMES >= 1 /\ <<new_a, new_b>> = EulerStep(SeededA, SeededB)
          /\ pc = "cell7" => new_a = <<>>
          /\ pc = "done" => N_TIMES = 0 /\ new_a = <<>>
    /\ (N_STEPS < 0 /\ Started) =>
          /\ err = "none" /\ pc # "error"
          /\ Len(evolution) = 1 + (i \div (-N_STEPS))
          /\ <<a, b>> = StepN(SeededA, SeededB, i)
          /\ pc = "done" => i = N_TIMES

\* the run stopped with ZeroDivisionError after computing a first step that
\* differs from the initial State
C4_Witness ==
    /\ pc = "error" /\ N_STEPS = 0
    /\ new_b # <<>> /\ new_b # b

\* C7 safety part: the State after i iterations is the i-fold step of the
\* initial State, the run never stops early and ends after N_TIMES steps
C7_Inv ==
    (Started /\ N_STEPS > 0) =>
        /\ i <= N_TIMES
        /\ <<a, b>> = StepN(SeededA, SeededB, i)
        /\ i >= 1 => <<new_a, new_b>> = <<a, b>>
        /\ i = 0 => new_a = <<>>
        /\ pc = "done" => i = N_TIMES
        /\ pc # "error" /\ err = "none"

\* steps still owed: the iterations left, then the loop exit
Rank == (N_TIMES - i) + (IF pc = "cell5" THEN 2 ELSE IF pc = "cell7" THEN 1 ELSE 0)

\* the run is never stuck before "done": cell 5 or the loop exit can run, or
\* the loop has an iteration to run (an iteration has no further condition)
C7_Progress ==
    (N_STEPS > 0) =>
        \/ pc = "done"
        \/ ENABLED InitializeStartingConditions
        \/ ENABLED LoopExit
        \/ LoopContinues

\* each iteration steps the State the previous one left, sampled or not, and
\* every step of the run uses up one of the steps owed
C7_StepChain ==
    N_STEPS > 0 =>
        /\ Rank' = Rank - 1 /\ Rank' >= 0
        /\ i' = i + 1 =>
              /\ <<new_a', new_b'>> = EulerStep(a, b)
              /\ <<a', b'>> = <<new_a', new_b'>>

\* C7: the run applies the step exactly N_TIMES times in strict sequence, the
\* input of each step being the output of the one before, without branching
\* on the values or stopping early, and then terminates (it is never stuck
\* before "done" and every step lowers the bounded count of steps owed);
\* with N_TIMES = 0 no step is applied.
C7_ExactlyNTimesThenTerminates ==
    /\ [](C7_Inv /\ C7_Progress)
    /\ [][C7_StepChain]_vars

\* a run of four iterations of which only the second and fourth are sampled
\* has finished, and its State kept changing up to the last step
C7_Witness ==
    /\ pc = "done" /\ i = 4 /\ N_TIMES = 4 /\ N_STEPS = 2
    /\ <<a, b>> # evolution[2]
    /\ <<a, b>> # StepN(SeededA, SeededB, 3)

=============================================================================
